---- MODULE Spec2Model ----
(***************************************************************************)
(* Contest judging backend: the ContestResult aggregate (models/           *)
(* ContestResult.js), the submission controller (submitSolution,           *)
(* submitFinalResults, updateContestResult) and the contest controller     *)
(* (joinContest), as a state machine over the persisted ContestResult      *)
(* collection and the HTTP requests in flight.                             *)
(*                                                                         *)
(* Every `await` of a handler that touches the ContestResult collection is *)
(* a step boundary: other requests may run between a handler's findOne,    *)
(* its create and its save.  Code between two awaits is synchronous in     *)
(* Node.js and is one step.  The awaits before a handler's findOne read    *)
(* data no handler writes (the contest, the problem, the test results), so *)
(* they are part of the step of the findOne.                               *)
(***************************************************************************)
EXTENDS Integers, Sequences, FiniteSets, TLC

----------------------------------------------------------------------------
(* Bounds of the model *)

MaxRequests == 2        \* requests admitted by the server in one behaviour
MaxOverlap == 1         \* requests that arrive while another one is in flight
MaxNow == 2             \* the clock runs over 0..MaxNow
MaxExecTime == 1        \* a test case's executionTime ranges over 0..MaxExecTime
MaxFinalItems == 1      \* length of the problemResults array of a final submission

----------------------------------------------------------------------------
(* The world the handlers read: users, the contest, the problem store *)

\* u1 is the user whose ContestResult is followed; a handler reads and writes
\* only the ContestResult of the userId it is called for, so the other
\* authenticated user u2 appears only as the caller of requests about u1
Users == {"u1"}
Principals == {"u1", "u2"}
Reqs == {"r1", "r2"}

NoDate == -1            \* an unset Date field (undefined / null)

\* Contest.findById: "c1" is the stored contest, "cX" is an id of no contest
ContestIds == {"c1", "cX"}

Contest ==
  [ startTime |-> 1, endTime |-> 1,
    problems |-> << [problemId |-> "p1", points |-> 50],
                    [problemId |-> "p2", points |-> 100] >> ]

\* Problem collection: p1 has two test cases worth 40 and 60, p2 has no test
\* case and the flat points 100, pX is a problem that is not in the contest.
\* A string is the sequence of its characters; timeLimit has the schema default.
ProblemIds == {"p1", "p2", "pX"}

Problem ==
  [ p1 |-> [testCases |-> << [id |-> "t1", points |-> 40, expectedOutput |-> <<"a", " ", "b">>],
                             [id |-> "t2", points |-> 60, expectedOutput |-> <<"b", "\n">>] >>,
            points |-> 100, timeLimit |-> 1000],
    p2 |-> [testCases |-> << >>, points |-> 100, timeLimit |-> 1000],
    pX |-> [testCases |-> << [id |-> "t3", points |-> 1, expectedOutput |-> <<"a">>] >>,
            points |-> 100, timeLimit |-> 1000] ]

----------------------------------------------------------------------------
(* Helpers *)

Max(a, b) == IF a >= b THEN a ELSE b

RECURSIVE SumSeq(_)
SumSeq(s) == IF s = << >> THEN 0 ELSE Head(s) + SumSeq(Tail(s))

\* a JSON value of a request body, as far as Number() distinguishes it
JsNum(n) == [t |-> "num", v |-> n]
JsUndefined == [t |-> "undefined", v |-> 0]

\* `Number(x) || 0`
NumberOr0(x) == IF x.t = "num" THEN x.v ELSE 0

----------------------------------------------------------------------------
(* models/ContestResult.js *)

\* a ContestResult document; exists = FALSE stands for "no such document"
NewContestResult(prs) ==
  [ exists |-> TRUE, problemResults |-> prs, totalScore |-> 0, totalTime |-> 0,
    penalties |-> 0, completedAt |-> NoDate, isCompleted |-> FALSE, v |-> 0,
    docs |-> 1 ]

\* docs is the number of documents the collection holds for the (userId,
\* contestId) of the document
NoDoc == [NewContestResult(<< >>) EXCEPT !.exists = FALSE, !.docs = 0]

\* contestResultSchema.index({ userId: 1, contestId: 1 }, { unique: true }):
\* an insert for a pair that has a document fails with a duplicate key error
DuplicateKey_NoIndex(cur) == FALSE
DuplicateKey(cur) == cur.exists

\* ContestResult.create: the insert; findOne goes on returning the document
\* that was there first
Insert(cur, created) == IF cur.exists THEN [cur EXCEPT !.docs = @ + 1] ELSE created

\* an element of problemResults with the schema defaults
NewProblemResult_Attempted(pid, maxScore) ==
  [ problemId |-> pid, score |-> 0, maxScore |-> maxScore, timeSpent |-> 0,
    submissionCount |-> 1, firstAcceptedAt |-> NoDate, status |-> "attempted" ]
NewProblemResult(pid, maxScore) ==
  [ problemId |-> pid, score |-> 0, maxScore |-> maxScore, timeSpent |-> 0,
    submissionCount |-> 0, firstAcceptedAt |-> NoDate, status |-> "not_attempted" ]

calculateTotals(doc) ==
  [doc EXCEPT
     !.totalScore = SumSeq([i \in 1..Len(doc.problemResults) |-> doc.problemResults[i].score]),
     !.totalTime  = SumSeq([i \in 1..Len(doc.problemResults) |-> doc.problemResults[i].timeSpent])]

\* Array.prototype.find: index of the first element for problemId, 0 if none
FindProblemResult(prs, problemId) ==
  IF \E i \in 1..Len(prs) : prs[i].problemId = problemId
  THEN CHOOSE i \in 1..Len(prs) :
         /\ prs[i].problemId = problemId
         /\ \A j \in 1..(i-1) : prs[j].problemId # problemId
  ELSE 0

\* the four assignments of the branch for an existing ProblemResult
NewScore_Overwrite(prev, score) == score
NewScore(prev, score) == Max(prev, score)

NewTimeSpent_Max(prev, timeSpent) == Max(prev, timeSpent)
NewTimeSpent(prev, timeSpent) == prev + timeSpent

NewSubmissionCount_Keep(prev) == prev
NewSubmissionCount(prev) == prev + 1

NewFirstAcceptedAt_Always(prev, isFirstAccept, t) == IF isFirstAccept THEN t ELSE prev
NewFirstAcceptedAt(prev, isFirstAccept, t) ==
  IF isFirstAccept /\ prev = NoDate THEN t ELSE prev

\* t is the value of `new Date()` when the method runs
updateProblemResult(doc, problemId, score, timeSpent, status, isFirstAccept, t) ==
  LET i == FindProblemResult(doc.problemResults, problemId) IN
  calculateTotals(
    IF i > 0
    THEN [doc EXCEPT !.problemResults[i] =
            [@ EXCEPT !.score = NewScore(@, score),
                      !.timeSpent = NewTimeSpent(@, timeSpent),
                      !.submissionCount = NewSubmissionCount(@),
                      !.status = status,
                      !.firstAcceptedAt = NewFirstAcceptedAt(@, isFirstAccept, t)]]
    ELSE [doc EXCEPT !.problemResults = Append(@,
            [ problemId |-> problemId, score |-> score, maxScore |-> 100,
              timeSpent |-> timeSpent, submissionCount |-> 1,
              firstAcceptedAt |-> IF isFirstAccept THEN t ELSE NoDate,
              status |-> status ])])

\* document.save(): Mongoose sends the paths whose value differs from the
\* value loaded (snap): a $set per changed field, a $push of the elements
\* appended to problemResults.  A $set below an array index is guarded by the
\* version read (__v); a $push increments the version.  cur is the stored
\* document at the time the write arrives.
SaveConflict(cur, snap, loc) ==
  /\ \E i \in 1..Len(snap.problemResults) : loc.problemResults[i] # snap.problemResults[i]
  /\ cur.v # snap.v

Save(cur, snap, loc) ==
  LET n == Len(snap.problemResults)
      pushed == SubSeq(loc.problemResults, n + 1, Len(loc.problemResults))
      merged(c, s, l) == [f \in DOMAIN c |-> IF l[f] # s[f] THEN l[f] ELSE c[f]]
  IN [ exists |-> TRUE,
       problemResults |->
         [i \in 1..Len(cur.problemResults) |->
            IF i <= n
            THEN merged(cur.problemResults[i], snap.problemResults[i], loc.problemResults[i])
            ELSE cur.problemResults[i]] \o pushed,
       totalScore |-> IF loc.totalScore # snap.totalScore THEN loc.totalScore ELSE cur.totalScore,
       totalTime |-> IF loc.totalTime # snap.totalTime THEN loc.totalTime ELSE cur.totalTime,
       penalties |-> IF loc.penalties # snap.penalties THEN loc.penalties ELSE cur.penalties,
       completedAt |-> IF loc.completedAt # snap.completedAt THEN loc.completedAt ELSE cur.completedAt,
       isCompleted |-> IF loc.isCompleted # snap.isCompleted THEN loc.isCompleted ELSE cur.isCompleted,
       v |-> IF pushed # << >> THEN cur.v + 1 ELSE cur.v,
       docs |-> cur.docs ]

----------------------------------------------------------------------------
(* controllers/submissionController.js: grading *)

\* the results CodeRunner.runCode can return for a problem: one entry per
\* test case, in order, each passed or not, with its executionTime
TestResultsOf(problem) ==
  [1..Len(problem.testCases) -> [passed : BOOLEAN, executionTime : 0..MaxExecTime]]

perTestPoints(problem) ==
  [i \in 1..Len(problem.testCases) |-> problem.testCases[i].points]

maxScoreOf(problem) == SumSeq(perTestPoints(problem))

scoreOf_CountAll(problem, testResults) ==
  SumSeq([idx \in 1..Len(testResults) |->
            IF idx <= Len(problem.testCases) THEN perTestPoints(problem)[idx] ELSE 0])
scoreOf(problem, testResults) ==
  SumSeq([idx \in 1..Len(testResults) |->
            IF testResults[idx].passed
            THEN (IF idx <= Len(problem.testCases) THEN perTestPoints(problem)[idx] ELSE 0)
            ELSE 0])

totalExecutionTimeOf(testResults) ==
  SumSeq([i \in 1..Len(testResults) |-> testResults[i].executionTime])

submissionStatus(score, maxScore) ==
  IF score = maxScore THEN "accepted" ELSE IF score > 0 THEN "partial" ELSE "attempted"

\* the index of problemId in contest.problems, 0 if the problem is not in it
problemInContest(problemId) ==
  IF \E i \in 1..Len(Contest.problems) : Contest.problems[i].problemId = problemId
  THEN CHOOSE i \in 1..Len(Contest.problems) : Contest.problems[i].problemId = problemId
  ELSE 0

\* maxScore of a ProblemResult created from the problem's test case points
maxScoreFromProblem(p) ==
  LET full == Problem[p.problemId] IN
  IF Len(full.testCases) > 0
  THEN SumSeq([i \in 1..Len(full.testCases) |-> full.testCases[i].points])
  ELSE full.points

\* maxScore of a ProblemResult created from the contest's points
maxScoreFromContest(p) == p.points

----------------------------------------------------------------------------
(* Request bodies *)

\* a totalTime value as parseDurationToMs distinguishes it
DurNull == [t |-> "null", v |-> 0, hms |-> <<0, 0, 0>>]
DurNum(n) == [t |-> "num", v |-> n, hms |-> <<0, 0, 0>>]
DurHms(hh, mm, ss) == [t |-> "hms", v |-> 0, hms |-> <<hh, mm, ss>>]

\* numbers and numeric strings: milliseconds if above 3600, else seconds;
\* "HH:MM:SS": its seconds times 1000; anything else: 0
parseDurationToMs(value) ==
  CASE value.t = "num" -> IF value.v > 3600 THEN value.v ELSE value.v * 1000
    [] value.t = "hms" -> ((value.hms[1] * 3600) + (value.hms[2] * 60) + value.hms[3]) * 1000
    [] OTHER -> 0

FinalScoreInputs == {JsNum(0), JsNum(50)}

\* the entries name a problem of the contest or one that is not in it
FinalItem == [problemId : {"p1", "pX"}, score : FinalScoreInputs]
FinalItems == UNION {[1..n -> FinalItem] : n \in 0..MaxFinalItems}

\* the totals of a final submission: all absent, or a score, a penalty and a time
FinalBody ==
  { [totalScore |-> JsUndefined, penaltyPoints |-> JsUndefined, totalTime |-> DurNull],
    [totalScore |-> JsNum(70), penaltyPoints |-> JsNum(5), totalTime |-> DurHms(0, 0, 3)] }

----------------------------------------------------------------------------
(* utils/codeRunner.js: data *)

TIMEOUT_MS == 5000

\* the languages of the switch of executeTestCase, and one it does not know
Languages == {"python", "javascript", "cpp", "java", "ruby"}
Interpreted == {"python", "javascript"}
Compiled == {"cpp", "java"}

getFileExtension(language) ==
  CASE language = "python" -> "py"
    [] language = "javascript" -> "js"
    [] language = "cpp" -> "cpp"
    [] language = "java" -> "java"
    [] OTHER -> "txt"

\* the exit code of a `close` event: 0, a non-zero code, or null when the
\* process was ended by the signal of spawn's timeout
NullCode == -1
ExitCodes == {0, 1, NullCode}

\* how long a process runs when it ends by itself, in milliseconds; a process
\* alive at TIMEOUT_MS is sent SIGTERM
RunDurations == {0, 2000}
CompileDurations == {0}

\* what a program can write to stdout
Stdouts == { << >>, <<"a", " ", "b", "\n">>, <<" ", "b">>, <<"a", "b">> }

\* String.prototype.trim
Whitespace == {" ", "\n"}

RECURSIVE trimStart(_)
trimStart(str) ==
  IF str # << >> /\ Head(str) \in Whitespace THEN trimStart(Tail(str)) ELSE str

RECURSIVE trimEnd(_)
trimEnd(str) ==
  IF str # << >> /\ str[Len(str)] \in Whitespace
  THEN trimEnd(SubSeq(str, 1, Len(str) - 1)) ELSE str

trim(str) == trimEnd(trimStart(str))

\* a file of the temp directory: the source file of test case n is
\* `${uuidv4()}.${extension}`, a fresh name per invocation
NoFile == [base |-> "none", n |-> 0, ext |-> ""]
tempFileOf(n, language) == [base |-> "uuid", n |-> n, ext |-> getFileExtension(language)]

\* what the compiler writes: g++ writes the path given by -o; javac writes one
\* class file per class the source declares, named after the class, and a
\* uuid is not a Java identifier, so no class is named after the source file
compilerOutput(language, tempFile) ==
  IF language = "cpp" THEN [tempFile EXCEPT !.ext = "exe"]
  ELSE [base |-> "Main", n |-> 0, ext |-> "class"]

\* the path the `close` handler of the run process unlinks if it exists:
\* executablePath for cpp, `${className}.class` for java with className the
\* basename of the source file
unlinkedOnClose(language, tempFile) ==
  CASE language = "cpp" -> {[tempFile EXCEPT !.ext = "exe"]}
    [] language = "java" -> {[tempFile EXCEPT !.ext = "class"]}
    [] OTHER -> {}

\* Math.ceil(Buffer.byteLength(output) / 1024) for outputs below 1024 bytes
estimateMemoryUsage(output) == IF output = << >> THEN 0 ELSE 1

\* the run of the compiled program follows a compile that exited with code
RunsAfterCompile_Always(code) == TRUE
RunsAfterCompile(code) == code = 0

\* the object runCode pushes when executeTestCase throws
FailureResult_Elapsed(message, elapsed) ==
  [ passed |-> FALSE, executionTime |-> elapsed, memoryUsed |-> 0,
    output |-> << >>, error |-> message ]
FailureResult(message, elapsed) ==
  [ passed |-> FALSE, executionTime |-> 0, memoryUsed |-> 0,
    output |-> << >>, error |-> message ]

\* the object executeTestCase returns
TestResult(testCase, output, executionTime) ==
  [ passed |-> trim(output) = trim(testCase.expectedOutput),
    executionTime |-> executionTime,
    memoryUsed |-> estimateMemoryUsage(output),
    output |-> output, error |-> "" ]

\* the catch of the loop of runCode
runCode_catch_Drop(results, message, elapsed) == results
runCode_catch(results, message, elapsed) == Append(results, FailureResult(message, elapsed))

\* history of a test case: how it ended, what the program wrote, how long the
\* run process ran, whether a run process was spawned, how the compile ended
NewHist(cause, stdout, runDuration, ranRun, compiled) ==
  [ cause |-> cause, stdout |-> stdout, runDuration |-> runDuration, ranRun |-> ranRun,
    compiled |-> compiled ]

\* where the loop of runCode starts its next iteration: `await
\* this.executeTestCase(...)` holds the loop until the invocation has settled
NextIterationAt_NoAwait(pc) == pc \in {"loop", "compiling", "running"}
NextIterationAt(pc) == pc = "loop"

\* alive counts the compile and run processes of the call that were spawned
\* and have not ended
IdleRunner ==
  [ pc |-> "idle", language |-> "none", problemId |-> "p2", idx |-> 1,
    results |-> << >>, hist |-> << >>, tempFile |-> NoFile, elapsed |-> 0,
    ranRun |-> FALSE, compiled |-> "none", spinning |-> FALSE, score |-> 0, maxScore |-> 0, status |-> "none",
    alive |-> 0 ]

----------------------------------------------------------------------------
(* controllers/submissionController.js: combineWithHarness *)

\* a value of a harness field of a problem: missing (JsUndefined), a string,
\* or an object keyed by language
JsStr(s) == [t |-> "str", v |-> s]
JsObj(m) == [t |-> "obj", v |-> m]

\* `String(x || '')` for a missing value or a string
StringOrEmpty(x) == IF x.t = "str" THEN x.v ELSE << >>

\* `raw[language]` of an object
Lookup(raw, language) ==
  IF language \in DOMAIN raw.v THEN raw.v[language] ELSE JsUndefined

\* problem?.harshnessCode ?? problem?.harnessCode ?? ''
rawHarness(problem) ==
  IF problem.harshnessCode.t # "undefined" THEN problem.harshnessCode
  ELSE IF problem.harnessCode.t # "undefined" THEN problem.harnessCode
  ELSE JsStr(<< >>)

\* the .trim() of the harness text
harnessTrim_None(str) == str
harnessTrim(str) == trim(str)

\* the harness text of the problem for the language
harnessOf(language, problem) ==
  LET raw == rawHarness(problem) IN
  IF raw.t = "obj" THEN harnessTrim(StringOrEmpty(Lookup(raw, language)))
  ELSE harnessTrim(StringOrEmpty(raw))

\* the comment sign of the marker lines of each language's template literal
commentMarker_Slashes(language) == "//"
commentMarker(language) == IF language = "python" THEN "#" ELSE "//"

combineWithHarness(userCode, language, problem) ==
  LET harness == harnessOf(language, problem) IN
  IF harness = << >> THEN userCode
  ELSE IF language \in {"javascript", "python", "cpp", "java"}
       THEN userCode
              \o <<"\n", commentMarker(language), " --- HARNESS START ---", "\n">>
              \o harness
              \o <<"\n", commentMarker(language), " --- HARNESS END ---">>
       ELSE userCode

\* the arguments of the calls: the submitted code, the harness texts and the
\* objects keyed by language a problem can carry
UserCodes == { <<"u">>, <<"u", "\n">> }
HarnessTexts == { << >>, <<" ", "\n">>, <<"h">>, <<" ", "h", "\n">> }
HarnessMaps ==
  { [l \in {} |-> JsStr(<< >>)],
    [l \in {"python"} |-> JsStr(<<" ">>)],
    [l \in {"python"} |-> JsStr(<<"h">>)],
    [l \in {"ruby"} |-> JsStr(<<"h">>)],
    [l \in {"javascript", "python", "cpp", "java"} |-> JsStr(<<"h", " ", l, "\n">>)] }
HarnessValues ==
  {JsUndefined} \cup {JsStr(s) : s \in HarnessTexts} \cup {JsObj(m) : m \in HarnessMaps}
HarnessProblems ==
  [harshnessCode : HarnessValues, harnessCode : {JsUndefined, JsStr(<<"g">>)}]

IdleComposer ==
  [ pc |-> "idle", userCode |-> << >>, language |-> "none",
    problem |-> [harshnessCode |-> JsUndefined, harnessCode |-> JsUndefined],
    combinedCode |-> << >> ]

----------------------------------------------------------------------------
(* utils/codeRunner.js: an invocation of executeTestCase by another request *)

\* the uuid of the other invocation's source file: not one of this call's
OtherUuid == 9

IdleInvocation ==
  [pc |-> "idle", language |-> "none", tempFile |-> NoFile, compiled |-> "none"]

\* the files an invocation has written: its source file and, once its
\* compile has succeeded, what the compiler wrote
writtenBy(language, tempFile, compiled) ==
  {tempFile} \cup (IF compiled = "ok" THEN {compilerOutput(language, tempFile)} ELSE {})

\* the files the cleanup of an invocation unlinks
cleanedBy(language, tempFile) == {tempFile} \cup unlinkedOnClose(language, tempFile)

----------------------------------------------------------------------------
(* State *)

VARIABLES
  db,        \* ContestResult collection of contest c1: userId -> document
  rq,        \* the request each server slot is handling, and where it stands
  now,       \* the clock
  admitted,  \* number of requests that passed their handler's checks so far
  overlaps,  \* number of requests that arrived while another one was in flight
  applied,   \* history: userId -> problemId -> applications of updateProblemResult
  execSum,   \* history: userId -> problemId -> sum of the timeSpent arguments applied
  best,      \* history: userId -> problemId -> highest score argument applied
  finals,    \* history: number of submitFinalResults requests accepted
  cr,        \* the CodeRunner.runCode call followed in detail, and where it stands
  temp,      \* the files of the CodeRunner's temp directory
  hc,        \* the last call of combineWithHarness: its arguments and what it returned
  other      \* an executeTestCase invocation of another submission, on the same CodeRunner

vars == <<db, rq, now, admitted, overlaps, applied, execSum, best, finals, cr, temp, hc, other>>

\* the variables of the code runner
runnerVars == <<cr, temp>>

IdleReq ==
  [ pc |-> "idle", op |-> "none", userId |-> "u1", problemId |-> "p1",
    score |-> 0, maxScore |-> 0, totalExecutionTime |-> 0, status |-> "none",
    snap |-> NoDoc,
    ver |-> "none", res |-> 0 ]

Init ==
  /\ db = [u \in Users |-> NoDoc]
  /\ rq = [r \in Reqs |-> IdleReq]
  /\ now = 0
  /\ admitted = 0
  /\ overlaps = 0
  /\ applied = [u \in Users |-> [p \in ProblemIds |-> 0]]
  /\ execSum = [u \in Users |-> [p \in ProblemIds |-> 0]]
  /\ best = [u \in Users |-> [p \in ProblemIds |-> 0]]
  /\ finals = 0
  /\ cr = IdleRunner
  /\ temp = {}
  /\ hc = IdleComposer
  /\ other = IdleInvocation

\* the handler of slot r sends its response with HTTP status code
Respond(r, code) ==
  rq' = [rq EXCEPT ![r] = [IdleReq EXCEPT !.pc = "responded", !.op = rq[r].op, !.res = code]]

\* a request of handler op is answered with code before it is admitted
Reject(r, op, code) ==
  rq' = [rq EXCEPT ![r] = [IdleReq EXCEPT !.pc = "responded", !.op = op, !.res = code]]

\* the handler of slot r goes on as req
Continue(r, req) == rq' = [rq EXCEPT ![r] = req]

\* the response is on the wire and the slot is free again
Finish(r) ==
  /\ rq[r].pc = "responded"
  /\ rq' = [rq EXCEPT ![r] = IdleReq]
  /\ UNCHANGED <<db, now, admitted, overlaps, applied, execSum, best, finals, cr, temp, hc, other>>

InFlight(r) == rq[r].pc # "idle"

\* a request arrives and is given to slot r: the first slot when no request
\* is in flight, the second slot when the first is busy
Free(r) ==
  /\ rq[r].pc = "idle"
  /\ admitted < MaxRequests
  /\ IF r = "r1"
     THEN ~InFlight("r2") /\ UNCHANGED overlaps
     ELSE InFlight("r1") /\ overlaps < MaxOverlap /\ overlaps' = overlaps + 1

\* a request that passes the handler's checks is admitted
Admit(r) == admitted' = admitted + 1
NotAdmitted == UNCHANGED admitted

----------------------------------------------------------------------------
(* submitSolution and updateContestResult *)

\* the contest is running at t: not `now < contest.startTime || now >
\* contest.endTime`
contestRunning_NoEnd(t) == t >= Contest.startTime
contestRunning(t) == ~(t < Contest.startTime \/ t > Contest.endTime)

\* the handler up to and including the findOne of updateContestResult: the
\* checks on the contest, its window and the problem, the grading of the test
\* results, then let contestResult = await ContestResult.findOne(...)
submitSolution(r, userId, contestId, problemId, testResults) ==
  /\ Free(r)
  /\ LET problem == Problem[problemId]
         maxScore == maxScoreOf(problem)
         score == scoreOf(problem, testResults)
         found == db[userId]
     IN IF contestId # "c1" THEN Reject(r, "submitSolution", 404) /\ NotAdmitted
        ELSE IF ~contestRunning(now)
             THEN Reject(r, "submitSolution", 400) /\ NotAdmitted
        ELSE IF problemInContest(problemId) = 0
             THEN Reject(r, "submitSolution", 400) /\ NotAdmitted
        ELSE /\ Admit(r)
             /\ Continue(r, [IdleReq EXCEPT
                  !.op = "submitSolution", !.userId = userId,
                  !.problemId = problemId, !.score = score, !.maxScore = maxScore,
                  !.totalExecutionTime = totalExecutionTimeOf(testResults),
                  !.status = submissionStatus(score, maxScore),
                  !.snap = found,
                  !.pc = IF found.exists THEN "ucr_update" ELSE "ucr_create"])
  /\ UNCHANGED <<db, now, applied, execSum, best, finals, cr, temp, hc, other>>

\* (Array.isArray(contest?.problems) ? contest.problems : []): the problems
\* the new document gets an entry for
contestProblems_None == << >>
contestProblems == Contest.problems

\* contestResult = await ContestResult.create({...}); the unique index on
\* (userId, contestId) rejects a second document, the catch of
\* updateContestResult swallows the error and submitSolution answers 200
updateContestResult_create(r) ==
  /\ rq[r].pc = "ucr_create"
  /\ LET u == rq[r].userId
         created == NewContestResult(
           [i \in 1..Len(contestProblems) |->
              NewProblemResult(contestProblems[i].problemId,
                               maxScoreFromProblem(contestProblems[i]))])
     IN IF DuplicateKey(db[u])
        THEN Respond(r, 200) /\ UNCHANGED db
        ELSE /\ db' = [db EXCEPT ![u] = Insert(@, created)]
             /\ Continue(r, [rq[r] EXCEPT !.snap = created, !.pc = "ucr_update"])
  /\ UNCHANGED <<now, admitted, overlaps, applied, execSum, best, finals, cr, temp, hc, other>>

\* contestResult.updateProblemResult(...); await contestResult.save(); then
\* the response of submitSolution.  A failed save is caught and logged.
updateContestResult_save(r) ==
  /\ rq[r].pc = "ucr_update"
  /\ LET u == rq[r].userId
         isFirstAccept == rq[r].status = "accepted"
         status == IF rq[r].status = "accepted" THEN "accepted"
                   ELSE IF rq[r].score > 0 THEN "partial" ELSE "attempted"
         updated == updateProblemResult(rq[r].snap, rq[r].problemId, rq[r].score,
                                        rq[r].totalExecutionTime, status, isFirstAccept, now)
     IN /\ db' = [db EXCEPT ![u] = IF SaveConflict(@, rq[r].snap, updated) THEN @
                                   ELSE Save(@, rq[r].snap, updated)]
        /\ applied' = [applied EXCEPT ![u][rq[r].problemId] = @ + 1]
        /\ execSum' = [execSum EXCEPT ![u][rq[r].problemId] = @ + rq[r].totalExecutionTime]
        /\ best' = [best EXCEPT ![u][rq[r].problemId] = Max(@, rq[r].score)]
        /\ Respond(r, 200)
  /\ UNCHANGED <<now, admitted, overlaps, finals, cr, temp, hc, other>>

----------------------------------------------------------------------------
(* submitFinalResults *)

\* the assignments of the final totals to the loaded document
setFinalResults(doc, body, t) ==
  [doc EXCEPT !.totalScore = NumberOr0(body.totalScore),
              !.penalties = NumberOr0(body.penaltyPoints),
              !.totalTime = parseDurationToMs(body.totalTime),
              !.completedAt = t,
              !.isCompleted = TRUE]

\* problemResults.forEach: updateProblemResult with the client's score, no
\* execution time, accepted iff the score is positive, never a first accept
RECURSIVE forEachProblemResult(_, _, _)
forEachProblemResult(doc, items, t) ==
  IF items = << >> THEN doc
  ELSE LET problemResult == Head(items)
           score == NumberOr0(problemResult.score)
       IN forEachProblemResult(
            updateProblemResult(doc, problemResult.problemId, score, 0,
                                IF score > 0 THEN "accepted" ELSE "attempted", FALSE, t),
            Tail(items), t)

\* the applications forEach makes for problem pid, and their highest score
ItemsFor(items, pid) == {i \in 1..Len(items) : items[i].problemId = pid}
MaxItemScore(items, pid, least) ==
  LET scores == {NumberOr0(items[i].score) : i \in ItemsFor(items, pid)} \cup {least}
  IN CHOOSE m \in scores : \A x \in scores : x <= m

\* not `userId !== authenticatedUserId`
isOwnRecord_Always(userId, authenticatedUserId) == TRUE
isOwnRecord(userId, authenticatedUserId) == ~(userId # authenticatedUserId)

\* the handler up to and including ContestResult.findOne: the check of the
\* body's userId against the authenticated user, the contest, then the lookup.
\* The rest of the body is read after the lookup, by submitFinalResults_save.
submitFinalResults(r, authenticatedUserId, userId, contestId) ==
  /\ Free(r)
  /\ IF ~isOwnRecord(userId, authenticatedUserId)
     THEN Reject(r, "submitFinalResults", 403) /\ NotAdmitted /\ UNCHANGED finals
     ELSE IF contestId # "c1"
     THEN Reject(r, "submitFinalResults", 404) /\ NotAdmitted /\ UNCHANGED finals
     ELSE LET found == db[userId] IN
          /\ Admit(r)
          /\ finals' = finals + 1
          /\ Continue(r, [IdleReq EXCEPT
               !.op = "submitFinalResults", !.userId = userId, !.snap = found,
               !.pc = IF found.exists THEN "fin_update" ELSE "fin_create"])
  /\ UNCHANGED <<db, now, applied, execSum, best, cr, temp, hc, other>>

\* contestResult = await ContestResult.create({...}), maxScore from the
\* contest's points; a duplicate key error ends the request with 500
submitFinalResults_create(r) ==
  /\ rq[r].pc = "fin_create"
  /\ LET u == rq[r].userId
         created == NewContestResult(
           [i \in 1..Len(Contest.problems) |->
              NewProblemResult(Contest.problems[i].problemId,
                               maxScoreFromContest(Contest.problems[i]))])
     IN IF DuplicateKey(db[u])
        THEN Respond(r, 500) /\ UNCHANGED db
        ELSE /\ db' = [db EXCEPT ![u] = Insert(@, created)]
             /\ Continue(r, [rq[r] EXCEPT !.snap = created, !.pc = "fin_update"])
  /\ UNCHANGED <<now, admitted, overlaps, applied, execSum, best, finals, cr, temp, hc, other>>

\* the final totals from the body, the forEach over the body's problemResults
\* (items), await contestResult.save() and the response; a VersionError ends
\* the request with 500
submitFinalResults_save(r, body, items) ==
  /\ rq[r].pc = "fin_update"
  /\ LET u == rq[r].userId
         updated == forEachProblemResult(setFinalResults(rq[r].snap, body, now),
                                         items, now)
     IN /\ applied' = [applied EXCEPT ![u] =
             [p \in ProblemIds |-> @[p] + Cardinality(ItemsFor(items, p))]]
        /\ best' = [best EXCEPT ![u] = [p \in ProblemIds |-> MaxItemScore(items, p, @[p])]]
        /\ IF SaveConflict(db[u], rq[r].snap, updated)
           THEN Respond(r, 500) /\ UNCHANGED db
           ELSE /\ db' = [db EXCEPT ![u] = Save(@, rq[r].snap, updated)]
                /\ Respond(r, 200)
  /\ UNCHANGED <<now, admitted, overlaps, execSum, finals, cr, temp, hc, other>>

----------------------------------------------------------------------------
(* joinContest *)

JoinVersions == {"testCasePoints", "contestPoints"}

\* the handler up to and including ContestResult.findOne: the contest, its
\* window, then the lookup of an existing result
joinContest(r, userId, contestId, ver) ==
  /\ Free(r)
  /\ IF contestId # "c1" THEN Reject(r, "joinContest", 404) /\ NotAdmitted
     ELSE IF now < Contest.startTime THEN Reject(r, "joinContest", 400) /\ NotAdmitted
     ELSE IF now > Contest.endTime THEN Reject(r, "joinContest", 400) /\ NotAdmitted
     ELSE IF db[userId].exists THEN Reject(r, "joinContest", 400) /\ NotAdmitted
     ELSE /\ Admit(r)
          /\ Continue(r, [IdleReq EXCEPT !.pc = "join_create", !.op = "joinContest",
                                         !.userId = userId, !.ver = ver])
  /\ UNCHANGED <<db, now, applied, execSum, best, finals, cr, temp, hc, other>>

\* await ContestResult.create({...}): one not_attempted ProblemResult per
\* contest problem; maxScore from the test case points in one version of the
\* controller, from the contest's points in the other
joinContest_create(r) ==
  /\ rq[r].pc = "join_create"
  /\ LET u == rq[r].userId
         created == NewContestResult(
           [i \in 1..Len(Contest.problems) |->
              NewProblemResult(Contest.problems[i].problemId,
                               IF rq[r].ver = "testCasePoints"
                               THEN maxScoreFromProblem(Contest.problems[i])
                               ELSE maxScoreFromContest(Contest.problems[i]))])
     IN IF DuplicateKey(db[u])
        THEN Respond(r, 500) /\ UNCHANGED db
        ELSE db' = [db EXCEPT ![u] = Insert(@, created)] /\ Respond(r, 200)
  /\ UNCHANGED <<now, admitted, overlaps, applied, execSum, best, finals, cr, temp, hc, other>>

----------------------------------------------------------------------------
(* utils/codeRunner.js: runCode and executeTestCase, then the grading of *)
(* submitSolution.  A step ends where the code waits for a process event. *)

mainVars == <<db, rq, now, admitted, overlaps, applied, execSum, best, finals, hc>>

CurrentProblem == Problem[cr.problemId]
CurrentTestCase == CurrentProblem.testCases[cr.idx]

\* executeTestCase has thrown: its finally unlinks the source file if it
\* exists, the catch of runCode pushes the failure and the loop goes on
Thrown(message, cause, stdout, runDuration, files) ==
  /\ temp' = files \ {cr.tempFile}
  /\ cr' = [cr EXCEPT
       !.pc = "loop", !.idx = @ + 1, !.tempFile = NoFile, !.elapsed = 0, !.ranRun = FALSE,
       !.compiled = "none", !.alive = @ - 1,
       !.results = runCode_catch(@, message, cr.elapsed + runDuration),
       !.hist = Append(@, NewHist(cause, stdout, runDuration, cr.ranRun,
                                  IF cause \in {"compile", "compile_timeout"}
                                  THEN "failed" ELSE cr.compiled))]

\* executeTestCase has returned result: the finally unlinks the source file
\* and runCode pushes the result
Returned(result, stdout, runDuration, files) ==
  /\ temp' = files \ {cr.tempFile}
  /\ cr' = [cr EXCEPT
       !.pc = "loop", !.idx = @ + 1, !.tempFile = NoFile, !.elapsed = 0, !.ranRun = FALSE,
       !.compiled = "none", !.alive = @ - 1,
       !.results = Append(@, result),
       !.hist = Append(@, NewHist("ok", stdout, runDuration, cr.ranRun, cr.compiled))]

\* submitSolution calls codeRunner.runCode(combinedCode, language, problem.testCases)
runCode(language, problemId) ==
  /\ cr.pc = "idle"
  /\ cr' = [IdleRunner EXCEPT !.pc = "loop", !.language = language, !.problemId = problemId]
  /\ UNCHANGED temp
  /\ UNCHANGED <<mainVars, other>>

\* the next iteration of the loop: executeTestCase writes the source file and
\* spawns the interpreter or the compiler; an unknown language throws
executeTestCase ==
  /\ NextIterationAt(cr.pc)
  /\ cr.idx <= Len(CurrentProblem.testCases)
  /\ LET tempFile == tempFileOf(cr.idx, cr.language) IN
     IF cr.language \in Interpreted
     THEN /\ temp' = temp \cup {tempFile}
          /\ cr' = [cr EXCEPT !.pc = "running", !.tempFile = tempFile, !.ranRun = TRUE,
                               !.alive = @ + 1]
     ELSE IF cr.language \in Compiled
     THEN /\ temp' = temp \cup {tempFile}
          /\ cr' = [cr EXCEPT !.pc = "compiling", !.tempFile = tempFile, !.alive = @ + 1]
     ELSE /\ temp' = (temp \cup {tempFile}) \ {tempFile}
          /\ cr' = [cr EXCEPT
               !.idx = @ + 1,
               !.results = runCode_catch(@, "Unsupported language", 0),
               !.hist = Append(@, NewHist("unsupported", << >>, 0, FALSE, "none"))]
  /\ UNCHANGED <<mainVars, other>>

\* compileProcess.on('close'): a non-zero code rejects and returns, code 0
\* spawns the run process
compileClose(code, duration) ==
  /\ cr.pc = "compiling"
  /\ IF code = NullCode THEN duration = TIMEOUT_MS ELSE duration \in CompileDurations
  /\ IF RunsAfterCompile(code)
     THEN /\ temp' = IF code = 0 THEN temp \cup {compilerOutput(cr.language, cr.tempFile)}
                     ELSE temp
          /\ cr' = [cr EXCEPT !.pc = "running", !.elapsed = @ + duration, !.ranRun = TRUE,
                               !.compiled = IF code = 0 THEN "ok" ELSE "failed"]
     ELSE Thrown("Compilation failed", IF code = NullCode THEN "compile_timeout" ELSE "compile",
                 << >>, duration, temp)
  /\ UNCHANGED <<mainVars, other>>

\* compileProcess.on('error'): the compiler could not be started
compileError ==
  /\ cr.pc = "compiling"
  /\ Thrown("spawn error", "spawn", << >>, 0, temp)
  /\ UNCHANGED <<mainVars, other>>

\* the `close` of the run process: the handler of cpp and java unlinks the
\* compiled file if it exists; a non-zero code rejects, code 0 resolves with
\* the output
runClose(code, stdout, duration) ==
  /\ cr.pc = "running"
  /\ IF code = NullCode THEN duration = TIMEOUT_MS ELSE duration \in RunDurations
  /\ LET files == temp \ unlinkedOnClose(cr.language, cr.tempFile) IN
     IF code # 0
     THEN Thrown(IF code = NullCode THEN "Process exited with code null"
                 ELSE "Process exited with code 1",
                 IF code = NullCode THEN "timeout" ELSE "exit", stdout, duration, files)
     ELSE Returned(TestResult(CurrentTestCase, stdout, cr.elapsed + duration),
                   stdout, duration, files)
  /\ UNCHANGED <<mainVars, other>>

\* the `error` event of the run process: the program could not be started
runError ==
  /\ cr.pc = "running"
  /\ Thrown("spawn error", "spawn", << >>, 0, temp)
  /\ UNCHANGED <<mainVars, other>>

\* the run process is alive at TIMEOUT_MS, spawn sends it SIGTERM (the default
\* killSignal), the program ignores the signal and does not end
runIgnoresSIGTERM ==
  /\ cr.pc = "running"
  /\ cr' = [cr EXCEPT !.pc = "hung"]
  /\ UNCHANGED temp
  /\ UNCHANGED <<mainVars, other>>

\* the program that ignored SIGTERM goes on running; no event reaches the
\* runner, whose promise stays pending
runGoesOn ==
  /\ cr.pc = "hung"
  /\ cr' = [cr EXCEPT !.spinning = ~@]
  /\ UNCHANGED temp
  /\ UNCHANGED <<mainVars, other>>

\* runCode returns results; submitSolution computes maxScore, score and status
runCode_return ==
  /\ cr.pc = "loop"
  /\ cr.idx > Len(CurrentProblem.testCases)
  /\ LET maxScore == maxScoreOf(CurrentProblem)
         score == scoreOf(CurrentProblem, cr.results)
     IN cr' = [cr EXCEPT !.pc = "graded", !.score = score, !.maxScore = maxScore,
                         !.status = submissionStatus(score, maxScore)]
  /\ UNCHANGED temp
  /\ UNCHANGED <<mainVars, other>>

----------------------------------------------------------------------------
(* submitSolution: the composition of the source that is run *)

\* const combinedCode = combineWithHarness(code, language, problem)
submitSolution_combine(userCode, language, problem) ==
  /\ hc' = [ pc |-> "combined", userCode |-> userCode, language |-> language,
             problem |-> problem,
             combinedCode |-> combineWithHarness(userCode, language, problem) ]
  /\ UNCHANGED <<db, rq, now, admitted, overlaps, applied, execSum, best, finals, cr, temp, other>>

----------------------------------------------------------------------------
(* executeTestCase called for another submission while runCode is at work: *)
(* the CodeRunner is one object and its temp directory is one directory    *)

\* executeTestCase writes the source file and spawns the interpreter or the
\* compiler
otherExecuteTestCase(language) ==
  /\ other.pc = "idle"
  /\ LET tempFile == tempFileOf(OtherUuid, language) IN
     /\ temp' = temp \cup {tempFile}
     /\ other' = [other EXCEPT
          !.pc = IF language \in Interpreted THEN "running" ELSE "compiling",
          !.language = language, !.tempFile = tempFile]
  /\ UNCHANGED <<mainVars, cr>>

\* compileProcess.on('close'): code 0 spawns the run process, any other code
\* rejects and the finally unlinks the source file
otherCompileClose(code) ==
  /\ other.pc = "compiling"
  /\ IF RunsAfterCompile(code)
     THEN /\ temp' = IF code = 0 THEN temp \cup {compilerOutput(other.language, other.tempFile)}
                     ELSE temp
          /\ other' = [other EXCEPT !.pc = "running",
                                    !.compiled = IF code = 0 THEN "ok" ELSE "failed"]
     ELSE /\ temp' = temp \ {other.tempFile}
          /\ other' = [other EXCEPT !.pc = "done", !.compiled = "failed"]
  /\ UNCHANGED <<mainVars, cr>>

\* the `close` of the run process, then the finally of executeTestCase
otherRunClose ==
  /\ other.pc = "running"
  /\ temp' = temp \ cleanedBy(other.language, other.tempFile)
  /\ other' = [other EXCEPT !.pc = "done"]
  /\ UNCHANGED <<mainVars, cr>>

\* the `error` event of the compile or of the run process, then the finally
otherError ==
  /\ other.pc \in {"compiling", "running"}
  /\ temp' = temp \ {other.tempFile}
  /\ other' = [other EXCEPT !.pc = "done"]
  /\ UNCHANGED <<mainVars, cr>>

----------------------------------------------------------------------------
(* Specifications *)

Tick ==
  /\ now < MaxNow
  /\ now' = now + 1
  /\ UNCHANGED <<db, rq, admitted, overlaps, applied, execSum, best, finals, cr, temp, hc, other>>

Handle(r) ==
  \/ \E u \in Users, c \in ContestIds, p \in ProblemIds :
       \E tr \in TestResultsOf(Problem[p]) : submitSolution(r, u, c, p, tr)
  \/ updateContestResult_create(r)
  \/ updateContestResult_save(r)
  \/ \E a \in Principals, u \in Users, c \in ContestIds : submitFinalResults(r, a, u, c)
  \/ submitFinalResults_create(r)
  \/ \E body \in FinalBody, items \in FinalItems : submitFinalResults_save(r, body, items)
  \/ \E u \in Users, c \in ContestIds, ver \in JoinVersions : joinContest(r, u, c, ver)
  \/ joinContest_create(r)
  \/ Finish(r)

\* requests are handled concurrently, one per slot
Next == Tick \/ \E r \in Reqs : Handle(r)

Spec == Init /\ [][Next]_vars

\* joinContest and submitSolution requests handled concurrently, one per
\* slot; the submissions are for the problem without test cases and for the
\* problem that is not in the contest
RaceProblemIds == {"p2", "pX"}

RaceHandle(r) ==
  \/ \E u \in Users, c \in ContestIds, p \in RaceProblemIds :
       \E tr \in TestResultsOf(Problem[p]) : submitSolution(r, u, c, p, tr)
  \/ updateContestResult_create(r)
  \/ updateContestResult_save(r)
  \/ \E u \in Users, c \in ContestIds, ver \in JoinVersions : joinContest(r, u, c, ver)
  \/ joinContest_create(r)
  \/ Finish(r)

RaceNext == Tick \/ \E r \in Reqs : RaceHandle(r)

RaceSpec == Init /\ [][RaceNext]_vars

\* requests are handled one after the other
SeqNext == Tick \/ Handle("r1")

SeqSpec == Init /\ [][SeqNext]_vars

\* one call of runCode and the grading of its results
RunnerNext ==
  \/ \E language \in Languages, problemId \in ProblemIds : runCode(language, problemId)
  \/ executeTestCase
  \/ \E code \in ExitCodes, duration \in CompileDurations \cup {TIMEOUT_MS} :
       compileClose(code, duration)
  \/ compileError
  \/ \E code \in ExitCodes, stdout \in Stdouts, duration \in RunDurations \cup {TIMEOUT_MS} :
       runClose(code, stdout, duration)
  \/ runError
  \/ runIgnoresSIGTERM
  \/ runGoesOn
  \/ runCode_return

RunnerSpec == Init /\ [][RunnerNext]_vars

\* the event loop delivers every event that is ready
RunnerFairSpec == RunnerSpec /\ WF_vars(RunnerNext)

\* calls of combineWithHarness
HarnessNext ==
  \E userCode \in UserCodes, language \in Languages, problem \in HarnessProblems :
    submitSolution_combine(userCode, language, problem)

HarnessSpec == Init /\ [][HarnessNext]_vars

\* the invocation of another submission
OtherNext ==
  \/ \E language \in Interpreted \cup Compiled : otherExecuteTestCase(language)
  \/ \E code \in ExitCodes : otherCompileClose(code)
  \/ otherRunClose
  \/ otherError

\* one call of runCode while another submission's test case is executed
ConcurrentRunnerSpec == Init /\ [][RunnerNext \/ OtherNext]_vars

----------------------------------------------------------------------------
(* Properties *)

HasEntry(doc, pid) == FindProblemResult(doc.problemResults, pid) > 0
EntryOf(doc, pid) == doc.problemResults[FindProblemResult(doc.problemResults, pid)]

\* the step of slot r is the updateProblemResult and save of updateContestResult
IsSubmitApplication(r) == rq[r].pc = "ucr_update" /\ rq'[r].pc = "responded"

\* the step of slot r is the forEach and the save of submitFinalResults
IsFinalApplication(r) == rq[r].pc = "fin_update" /\ rq'[r].pc = "responded"

\* C1: each application of updateProblemResult to an existing ProblemResult
\* leaves score = max(previous score, submitted score): after the application
\* made by submitSolution the stored score is the maximum of the previous score
\* and the submitted one, after the applications made by one
\* submitFinalResults it is the maximum of the previous score and the highest
\* score submitted for the problem so far, and the stored score of a
\* ProblemResult never decreases from one state to the next.
C1_ScoreIsMaxOfPrevious ==
  [][ /\ \A r \in Reqs : IsSubmitApplication(r) =>
           LET u == rq[r].userId  pid == rq[r].problemId IN
           HasEntry(db[u], pid) =>
             /\ HasEntry(db'[u], pid)
             /\ EntryOf(db'[u], pid).score = Max(EntryOf(db[u], pid).score, rq[r].score)
      /\ \A r \in Reqs : IsFinalApplication(r) =>
           LET u == rq[r].userId IN
           \A pid \in ProblemIds :
             (HasEntry(db[u], pid) /\ applied'[u][pid] > applied[u][pid]) =>
               /\ HasEntry(db'[u], pid)
               /\ EntryOf(db'[u], pid).score = Max(EntryOf(db[u], pid).score, best'[u][pid])
      /\ \A u \in Users : \A i \in 1..Len(db[u].problemResults) :
           /\ i <= Len(db'[u].problemResults)
           /\ db'[u].problemResults[i].score >= db[u].problemResults[i].score
    ]_vars

\* a best score of 100 survived a later partial submission
C1_Witness ==
  \E u \in Users : /\ HasEntry(db[u], "p1")
                   /\ EntryOf(db[u], "p1").score = 100
                   /\ EntryOf(db[u], "p1").status = "partial"
                   /\ EntryOf(db[u], "p1").submissionCount = 2

\* C2: once the stored status of a ProblemResult is accepted, it stays
\* accepted in every later state.
C2_AcceptedIsTerminal ==
  [][ \A u \in Users : \A i \in 1..Len(db[u].problemResults) :
        db[u].problemResults[i].status = "accepted" =>
          /\ i <= Len(db'[u].problemResults)
          /\ db'[u].problemResults[i].status = "accepted"
    ]_vars

\* C3: whatever the interleaving of submitSolution requests (no
\* submitFinalResults involved), the stored ProblemResult accounts for every
\* application: submissionCount is the number of applications, timeSpent the sum
\* of their execution times, score the highest score applied.
C3_NoLostUpdate ==
  finals = 0 =>
    \A u \in Users : \A pid \in ProblemIds :
      HasEntry(db[u], pid) =>
        /\ EntryOf(db[u], pid).submissionCount = applied[u][pid]
        /\ EntryOf(db[u], pid).timeSpent = execSum[u][pid]
        /\ EntryOf(db[u], pid).score = best[u][pid]

\* C4: every application of updateProblemResult adds exactly 1 to
\* submissionCount (a synthesized ProblemResult starts at 1): submissionCount
\* of every ProblemResult equals the number of applications made for its
\* problem, and it never decreases.
C4_SubmissionCountCountsApplications ==
  [][ /\ \A u \in Users : \A pid \in ProblemIds :
           HasEntry(db'[u], pid) => EntryOf(db'[u], pid).submissionCount = applied'[u][pid]
      /\ \A u \in Users : \A i \in 1..Len(db[u].problemResults) :
           /\ i <= Len(db'[u].problemResults)
           /\ db'[u].problemResults[i].submissionCount >= db[u].problemResults[i].submissionCount
    ]_vars

\* a joined user (maxScore 50 for p1 is set only by joinContest from the
\* contest's points when no final submission was made) after a submission
C4_Witness ==
  \E u \in Users : /\ finals = 0
                   /\ HasEntry(db[u], "p1")
                   /\ EntryOf(db[u], "p1").maxScore = 50
                   /\ EntryOf(db[u], "p1").submissionCount = 1
                   /\ applied[u]["p1"] = 1

\* C5: timeSpent of every ProblemResult equals the sum of the total execution
\* times of the submissions applied to it (a sum, not a maximum), and it never
\* decreases.
C5_TimeSpentIsSum ==
  [][ /\ \A u \in Users : \A pid \in ProblemIds :
           HasEntry(db'[u], pid) => EntryOf(db'[u], pid).timeSpent = execSum'[u][pid]
      /\ \A u \in Users : \A i \in 1..Len(db[u].problemResults) :
           /\ i <= Len(db'[u].problemResults)
           /\ db'[u].problemResults[i].timeSpent >= db[u].problemResults[i].timeSpent
    ]_vars

\* two submissions that ran for 2 and 1: the sum is 3, the maximum 2
C5_Witness ==
  \E u \in Users : /\ HasEntry(db[u], "p1")
                   /\ EntryOf(db[u], "p1").submissionCount = 2
                   /\ EntryOf(db[u], "p1").timeSpent = 3
                   /\ execSum[u]["p1"] = 3

\* C6: a firstAcceptedAt that is set in the stored document has the same
\* value in the next state, whichever handler's application and save the step
\* is.
C6_FirstAcceptedAtImmutable ==
  [][ \A u \in Users : \A i \in 1..Len(db[u].problemResults) :
        db[u].problemResults[i].firstAcceptedAt # NoDate =>
          /\ i <= Len(db'[u].problemResults)
          /\ db'[u].problemResults[i].firstAcceptedAt = db[u].problemResults[i].firstAcceptedAt
    ]_vars

\* a ProblemResult accepted at time 1 to which a later application was made
\* at time 2 (its status is no longer the accepted of the first accept)
C6_Witness ==
  \E u \in Users : /\ HasEntry(db[u], "p1")
                   /\ EntryOf(db[u], "p1").firstAcceptedAt = 1
                   /\ EntryOf(db[u], "p1").submissionCount = 2
                   /\ EntryOf(db[u], "p1").status = "partial"
                   /\ now = 2

\* C7: every stored ProblemResult whose status is accepted has firstAcceptedAt
\* set.
C7_AcceptedHasFirstAcceptedAt ==
  \A u \in Users : \A i \in 1..Len(db[u].problemResults) :
    db[u].problemResults[i].status = "accepted" =>
      db[u].problemResults[i].firstAcceptedAt # NoDate

\* C8: in every stored ContestResult totalScore is the sum of the scores and
\* totalTime the sum of the timeSpent of its ProblemResults.
C8_TotalsAreSums ==
  \A u \in Users : db[u].exists =>
    /\ db[u].totalScore
         = SumSeq([i \in 1..Len(db[u].problemResults) |-> db[u].problemResults[i].score])
    /\ db[u].totalTime
         = SumSeq([i \in 1..Len(db[u].problemResults) |-> db[u].problemResults[i].timeSpent])

\* C9: a stored ContestResult with isCompleted set is the same in the next
\* state.
C9_CompletedIsImmutable ==
  [][ \A u \in Users : (db[u].exists /\ db[u].isCompleted) => db'[u] = db[u] ]_vars

\* C10: the maxScore computed when grading a submission is the sum of the
\* points of the problem's test cases, or the problem's flat points when it has
\* no test case.
C10_MaxScoreWithFallback ==
  \A r \in Reqs :
    (rq[r].op = "submitSolution" /\ rq[r].pc \in {"ucr_create", "ucr_update"}) =>
      LET problem == Problem[rq[r].problemId] IN
      rq[r].maxScore =
        IF Len(problem.testCases) = 0 THEN problem.points
        ELSE SumSeq([i \in 1..Len(problem.testCases) |-> problem.testCases[i].points])

\* a submitSolution request that was graded and is on its way to the aggregator
Graded(r) == rq[r].op = "submitSolution" /\ rq[r].pc \in {"ucr_create", "ucr_update"}

\* C11: the status of a graded submission is accepted iff score = maxScore
\* and maxScore > 0, partial iff 0 < score < maxScore, attempted iff score = 0.
C11_StatusFromScore ==
  \A r \in Reqs : Graded(r) =>
    /\ rq[r].status = "accepted" <=> (rq[r].score = rq[r].maxScore /\ rq[r].maxScore > 0)
    /\ rq[r].status = "partial" <=> (0 < rq[r].score /\ rq[r].score < rq[r].maxScore)
    /\ rq[r].status = "attempted" <=> rq[r].score = 0

\* the results of the call of runCode are graded
IsGraded == cr.pc = "graded"

\* C12: the score of a graded submission is the sum of the points of exactly
\* the test cases whose result, at the same position, has passed.
C12_ScoreIsSumOfPassed ==
  IsGraded =>
    LET testCases == Problem[cr.problemId].testCases
        passedAt == {i \in 1..Len(testCases) : i <= Len(cr.results) /\ cr.results[i].passed}
    IN /\ Len(cr.results) = Len(testCases)
       /\ cr.score = SumSeq([i \in 1..Len(testCases) |->
                               IF i \in passedAt THEN testCases[i].points ELSE 0])

\* points [40, 60] with only the second test passing: 60 of 100, partial
C12_Witness ==
  /\ IsGraded
  /\ cr.problemId = "p1"
  /\ ~cr.results[1].passed
  /\ cr.results[2].passed
  /\ cr.score = 60
  /\ cr.maxScore = 100
  /\ cr.status = "partial"

\* the test cases of the problem of the call of runCode
TestCasesOfCall == Problem[cr.problemId].testCases

\* test case i ended with a failure: the process could not be started, exited
\* with a non-zero code, did not compile, was ended at the timeout, or the
\* language is unknown
FailedAt(i) == cr.hist[i].cause # "ok"

\* C13: a failure while running one test case is recorded as passed = false,
\* executionTime = 0 and the failure's message, and does not abort grading:
\* when runCode has returned every test case has its result, and the score is
\* the sum of the points of the test cases that ran and printed the expected
\* output.
C13_FailureDoesNotAbort ==
  /\ Len(cr.hist) = Len(cr.results)
  /\ \A i \in 1..Len(cr.results) :
       FailedAt(i) => /\ ~cr.results[i].passed
                      /\ cr.results[i].executionTime = 0
                      /\ cr.results[i].error # ""
  /\ IsGraded =>
       /\ Len(cr.results) = Len(TestCasesOfCall)
       /\ cr.score = SumSeq([i \in 1..Len(TestCasesOfCall) |->
                               IF /\ ~FailedAt(i)
                                  /\ trim(cr.hist[i].stdout) = trim(TestCasesOfCall[i].expectedOutput)
                               THEN TestCasesOfCall[i].points ELSE 0])

\* the first test case was ended at the timeout, the second ran and passed
C13_Witness ==
  /\ IsGraded
  /\ cr.problemId = "p1"
  /\ cr.hist[1].cause = "timeout"
  /\ cr.results[1].error = "Process exited with code null"
  /\ cr.hist[2].cause = "ok"
  /\ cr.results[2].passed
  /\ cr.score = 60

\* C14: runCode returns exactly one result per test case, in the order of the
\* problem's test cases: while the loop runs the results are those of the test
\* cases before the current one, and result i carries the output of the run of
\* test case i, compared with the expected output of test case i.
C14_OneResultPerTestCaseInOrder ==
  /\ cr.pc # "idle" => Len(cr.results) = cr.idx - 1
  /\ IsGraded => Len(cr.results) = Len(TestCasesOfCall)
  /\ \A i \in 1..Len(cr.results) :
       /\ i <= Len(TestCasesOfCall)
       /\ ~FailedAt(i) =>
            /\ cr.results[i].output = cr.hist[i].stdout
            /\ cr.results[i].passed
                 <=> trim(cr.results[i].output) = trim(TestCasesOfCall[i].expectedOutput)

\* a run of two test cases where the first exited with a non-zero code and the
\* second printed the first one's expected output: two results, in order
C14_Witness ==
  /\ IsGraded
  /\ cr.problemId = "p1"
  /\ Len(cr.results) = 2
  /\ cr.hist[1].cause = "exit"
  /\ cr.hist[2].cause = "ok"
  /\ cr.results[2].output = <<"a", " ", "b", "\n">>
  /\ ~cr.results[2].passed

\* C15: every result carries the identifier of the test case it grades:
\* results[i].testCaseId = testCases[i].id.
C15_ResultCarriesTestCaseId ==
  \A i \in 1..Len(cr.results) :
    /\ "testCaseId" \in DOMAIN cr.results[i]
    /\ cr.results[i].testCaseId = TestCasesOfCall[i].id

\* C16: for every test case whose program ran and wrote its output, passed is
\* true iff the trimmed stdout equals the trimmed expectedOutput, whatever the
\* exit code of the process.
C16_PassedIffTrimmedEqual ==
  \A i \in 1..Len(cr.results) :
    cr.hist[i].cause \in {"ok", "exit"} =>
      (cr.results[i].passed
         <=> trim(cr.hist[i].stdout) = trim(TestCasesOfCall[i].expectedOutput))

\* C17: between two invocations of executeTestCase, and when runCode has
\* returned, the temp directory holds no file.
C17_NoArtifactRemains ==
  cr.pc \in {"loop", "graded"} => temp = {}

\* C18: every call of runCode returns: a call that was made is eventually
\* graded.
C18_EveryCallReturns == (cr.pc # "idle") ~> IsGraded

\* C19: a run that took longer than the problem's timeLimit was ended at that
\* limit and its test case is reported as failed.
C19_ProblemTimeLimitEnforced ==
  \A i \in 1..Len(cr.results) :
    (cr.hist[i].ranRun /\ cr.hist[i].runDuration > Problem[cr.problemId].timeLimit) =>
      /\ cr.hist[i].cause = "timeout"
      /\ ~cr.results[i].passed

\* the compile of test case i exited with a non-zero code
CompileFailedAt(i) == cr.hist[i].compiled = "failed"

\* C20: after a compile that exited with a non-zero code no run process is
\* spawned for that test case, and the test case's result is the compilation
\* failure.
C20_NoRunAfterFailedCompile ==
  /\ cr.compiled = "failed" => (cr.pc # "running" /\ ~cr.ranRun)
  /\ cr.pc = "running" /\ cr.language \in Compiled => cr.compiled = "ok"
  /\ \A i \in 1..Len(cr.results) :
       CompileFailedAt(i) => /\ ~cr.hist[i].ranRun
                             /\ ~cr.results[i].passed
                             /\ cr.results[i].error = "Compilation failed"

\* a cpp submission whose compile failed for the first test case; the loop
\* went on to the second one, whose compile succeeded and whose program ran
C20_Witness ==
  /\ cr.language = "cpp"
  /\ Len(cr.results) = 2
  /\ CompileFailedAt(1)
  /\ cr.hist[1].cause = "compile"
  /\ cr.hist[2].compiled = "ok"
  /\ cr.hist[2].ranRun

\* C21: a submission in a compiled language whose compile failed for every
\* test case is graded with every result passed = false and the compilation
\* error, score 0, and the status compilation_error.
C21_CompileFailureIsCompilationError ==
  ( /\ IsGraded
    /\ cr.language \in Compiled
    /\ Len(TestCasesOfCall) > 0
    /\ \A i \in 1..Len(cr.hist) : CompileFailedAt(i) ) =>
      /\ \A i \in 1..Len(cr.results) :
           ~cr.results[i].passed /\ cr.results[i].error = "Compilation failed"
      /\ cr.score = 0
      /\ cr.status = "compilation_error"

\* C22: a call of runCode in a language executeTestCase has no case for
\* produces no test result and is never graded.
C22_UnsupportedLanguageIsRejected ==
  cr.pc # "idle" /\ cr.language \notin (Interpreted \cup Compiled) =>
    /\ cr.results = << >>
    /\ ~IsGraded

\* combineWithHarness was called and has returned combinedCode
IsCombined == hc.pc = "combined"

\* the harness text a problem holds for a language: the harness string when
\* the field is a string, the entry of the language when it is an object keyed
\* by language, empty when there is none
ResolvedHarness(language, problem) ==
  LET raw == rawHarness(problem) IN
  IF raw.t = "obj" THEN StringOrEmpty(Lookup(raw, language)) ELSE StringOrEmpty(raw)

\* the single-line comment sign of each supported language
SupportedLanguages == {"python", "javascript", "cpp", "java"}
SingleLineComment(language) == IF language = "python" THEN "#" ELSE "//"

\* C23: combineWithHarness never drops a harness that is not empty: for no
\* language does it return the user code alone when the problem holds a
\* harness text for that language.
C23_HarnessNeverDropped ==
  IsCombined /\ trim(ResolvedHarness(hc.language, hc.problem)) # << >> =>
    hc.combinedCode # hc.userCode

\* C24: when the harness resolved for the language is empty after trimming
\* (an empty string, whitespace only, a missing field, or an object with no
\* entry for the language), combineWithHarness returns the user code unchanged,
\* for every language.
C24_EmptyHarnessReturnsUserCode ==
  IsCombined /\ trim(ResolvedHarness(hc.language, hc.problem)) = << >> =>
    hc.combinedCode = hc.userCode

\* a harness of whitespace only, for cpp: the user code comes back as it was,
\* its trailing newline included
C24_Witness ==
  /\ IsCombined
  /\ hc.language = "cpp"
  /\ hc.problem.harshnessCode = JsStr(<<" ", "\n">>)
  /\ hc.userCode = <<"u", "\n">>
  /\ hc.combinedCode = <<"u", "\n">>

\* C25 as stated: for a supported language and a harness that is not empty,
\* the result is the user code, the HARNESS START line in the language's
\* comment syntax, the harness text as the problem holds it, the HARNESS END
\* line.
C25_HarnessAsStored ==
  ( /\ IsCombined
    /\ hc.language \in SupportedLanguages
    /\ trim(ResolvedHarness(hc.language, hc.problem)) # << >> ) =>
      hc.combinedCode =
        hc.userCode
          \o <<"\n", SingleLineComment(hc.language), " --- HARNESS START ---", "\n">>
          \o ResolvedHarness(hc.language, hc.problem)
          \o <<"\n", SingleLineComment(hc.language), " --- HARNESS END ---">>

\* C25: for a supported language and a harness that is not empty, the result
\* is the user code, the HARNESS START line in the language's comment syntax,
\* the harness text without its leading and trailing whitespace, the HARNESS
\* END line; the harness text is the string for every language, or the entry
\* of the language.
C25_HarnessBetweenMarkers ==
  ( /\ IsCombined
    /\ hc.language \in SupportedLanguages
    /\ trim(ResolvedHarness(hc.language, hc.problem)) # << >> ) =>
      hc.combinedCode =
        hc.userCode
          \o <<"\n", SingleLineComment(hc.language), " --- HARNESS START ---", "\n">>
          \o trim(ResolvedHarness(hc.language, hc.problem))
          \o <<"\n", SingleLineComment(hc.language), " --- HARNESS END ---">>

\* python and an object with one entry per language: the python entry between
\* lines that start with #
C25_Witness ==
  /\ IsCombined
  /\ hc.language = "python"
  /\ hc.problem.harshnessCode.t = "obj"
  /\ hc.userCode = <<"u">>
  /\ hc.combinedCode =
       <<"u", "\n", "#", " --- HARNESS START ---", "\n", "h", " ", "python",
         "\n", "#", " --- HARNESS END ---">>

\* C26: a ProblemResult that updateProblemResult adds for a problem the
\* document had no entry for (a problem outside the contest's list) carries as
\* maxScore the sum of the points of that problem's test cases.
C26_SynthesizedMaxScoreFromTestCases ==
  \A u \in Users : db[u].exists =>
    \A i \in 1..Len(db[u].problemResults) :
      LET entry == db[u].problemResults[i]
          testCases == Problem[entry.problemId].testCases
      IN problemInContest(entry.problemId) = 0 =>
           entry.maxScore = SumSeq([k \in 1..Len(testCases) |-> testCases[k].points])

\* an invocation of executeTestCase is under way
InInvocation == cr.pc \in {"compiling", "running", "hung"}

\* C27: the test cases of one call of runCode are executed one after the
\* other, in their order: an invocation is under way only when every earlier
\* test case has its result, and at most one compile or run process of the
\* call is alive at any time, none between two invocations.
C27_OneInvocationAtATime ==
  /\ cr.alive <= 1
  /\ cr.alive = 1 <=> InInvocation
  /\ InInvocation =>
       /\ Len(cr.results) = cr.idx - 1
       /\ Len(cr.hist) = cr.idx - 1
       /\ cr.tempFile = tempFileOf(cr.idx, cr.language)

\* the process of the second test case is alive, the first test case has its
\* result
C27_Witness ==
  /\ cr.pc = "running"
  /\ cr.problemId = "p1"
  /\ cr.idx = 2
  /\ Len(cr.results) = 1
  /\ cr.alive = 1

\* the invocation of the other submission is under way
OtherInInvocation == other.pc \in {"compiling", "running"}

\* C28: two invocations of executeTestCase that are under way at the same
\* time share no file: the source file and the compiled files one has written
\* are none of the other's, and the cleanup of one unlinks no file the other
\* has written.
C28_ArtifactsDisjoint ==
  InInvocation /\ OtherInInvocation =>
    LET mine == writtenBy(cr.language, cr.tempFile, cr.compiled)
        theirs == writtenBy(other.language, other.tempFile, other.compiled)
    IN /\ mine \cap theirs = {}
       /\ cleanedBy(cr.language, cr.tempFile) \cap theirs = {}
       /\ cleanedBy(other.language, other.tempFile) \cap mine = {}

\* joinContest has answered 200 in slot r
Joined(r) == rq[r].pc = "responded" /\ rq[r].op = "joinContest" /\ rq[r].res = 200

\* C29: when joinContest has succeeded the user's ContestResult holds exactly
\* one ProblemResult per problem of the contest, in the contest's order, each
\* with status not_attempted, score 0, timeSpent 0, submissionCount 0 and no
\* firstAcceptedAt, and totalScore = 0 and isCompleted = false.
C29_JoinCreatesBlankResult ==
  \A r \in Reqs : Joined(r) =>
    \A u \in Users :
      /\ db[u].exists
      /\ Len(db[u].problemResults) = Len(Contest.problems)
      /\ \A i \in 1..Len(db[u].problemResults) :
           LET entry == db[u].problemResults[i] IN
           /\ entry.problemId = Contest.problems[i].problemId
           /\ entry.status = "not_attempted"
           /\ entry.score = 0
           /\ entry.timeSpent = 0
           /\ entry.submissionCount = 0
           /\ entry.firstAcceptedAt = NoDate
      /\ db[u].totalScore = 0
      /\ ~db[u].isCompleted

\* a join that succeeded: the result has the two problems of the contest
C29_Witness ==
  /\ Joined("r1")
  /\ db["u1"].exists
  /\ Len(db["u1"].problemResults) = 2
  /\ db["u1"].problemResults[1].problemId = "p1"
  /\ db["u1"].problemResults[2].problemId = "p2"
  /\ db["u1"].problemResults[2].status = "not_attempted"

\* the problems of the contest
ContestProblemIds == {Contest.problems[i].problemId : i \in 1..Len(Contest.problems)}

\* C30: submitSolution grades only inside the contest window: a request that
\* arrives before startTime or after endTime, or names a contest that does not
\* exist or a problem that is not in the contest, is answered with an error
\* status, and that step starts no code runner call, writes no temp file and
\* leaves every ContestResult as it was: a step of submitSolution either is
\* such a rejection, or is the step of no request of that kind.
C30_GradesOnlyInsideWindow ==
  [][ \A r \in Reqs :
        (rq[r].pc = "idle" /\ rq'[r].op = "submitSolution") =>
          \/ /\ rq'[r].pc = "responded"
             /\ rq'[r].res \in {400, 404}
             /\ db' = db
             /\ cr' = cr
             /\ temp' = temp
          \/ \A u \in Users, c \in ContestIds, p \in ProblemIds :
               ( \/ c # "c1"
                 \/ now < Contest.startTime
                 \/ now > Contest.endTime
                 \/ p \notin ContestProblemIds ) =>
                 ~ \E tr \in TestResultsOf(Problem[p]) : submitSolution(r, u, c, p, tr)
    ]_vars

\* a submission that arrived after endTime was answered 400; the result the
\* user had from joining is as joining left it
C30_Witness ==
  /\ rq["r1"].pc = "responded"
  /\ rq["r1"].op = "submitSolution"
  /\ rq["r1"].res = 400
  /\ now > Contest.endTime
  /\ db["u1"].exists
  /\ db["u1"].totalScore = 0

\* C31: the collection holds at most one ContestResult per (user, contest),
\* also when two joinContest requests, or a joinContest and a first
\* submitSolution, have both passed findOne before either creates the document.
C31_AtMostOneContestResult ==
  \A u \in Users :
    /\ db[u].docs <= 1
    /\ db[u].exists <=> db[u].docs = 1

\* two joinContest requests had both found no document: the create of the
\* second failed on the unique index and the request was answered 500
C31_Witness ==
  /\ rq["r2"].pc = "responded"
  /\ rq["r2"].op = "joinContest"
  /\ rq["r2"].res = 500
  /\ db["u1"].exists
  /\ db["u1"].docs = 1

\* the submissionCount stored for problem pid, 0 when there is no entry
StoredCount(doc, pid) ==
  IF doc.exists /\ HasEntry(doc, pid) THEN EntryOf(doc, pid).submissionCount ELSE 0

\* C32: when submitSolution answers 200 with a graded outcome the submission
\* has been merged into the stored ContestResult: the submissionCount of the
\* submitted problem is one more than before the update and its score is at
\* least the reported score, also when the creation or the save failed.
C32_GradedMeansMerged ==
  [][ \A r \in Reqs :
        ( /\ rq[r].op = "submitSolution"
          /\ rq[r].pc \in {"ucr_create", "ucr_update"}
          /\ rq'[r].pc = "responded"
          /\ rq'[r].res = 200 ) =>
          LET u == rq[r].userId
              pid == rq[r].problemId
          IN /\ db'[u].exists
             /\ HasEntry(db'[u], pid)
             /\ StoredCount(db'[u], pid) = StoredCount(rq[r].snap, pid) + 1
             /\ EntryOf(db'[u], pid).score >= rq[r].score
    ]_vars

\* the only request admitted so far is a submitSolution for problem pid of
\* user u, and its update has been applied: u had not joined
FirstSubmissionApplied(u, pid) ==
  admitted = 1 /\ finals = 0 /\ applied[u][pid] = 1

\* C33: after a graded submission by a user who had no ContestResult, the
\* user's ContestResult holds one ProblemResult per problem of the contest;
\* that of the submitted problem has submissionCount = 1, every other one is
\* not_attempted with submissionCount = 0.
C33_FirstSubmissionCreatesResult ==
  \A u \in Users, pid \in ProblemIds :
    FirstSubmissionApplied(u, pid) =>
      /\ db[u].exists
      /\ Len(db[u].problemResults) = Len(Contest.problems)
      /\ \A i \in 1..Len(db[u].problemResults) :
           LET entry == db[u].problemResults[i] IN
           /\ entry.problemId = Contest.problems[i].problemId
           /\ IF entry.problemId = pid
              THEN entry.submissionCount = 1
              ELSE entry.status = "not_attempted" /\ entry.submissionCount = 0

\* a first submission for p1 that passed both tests, by a user who had not
\* joined
C33_Witness ==
  /\ FirstSubmissionApplied("u1", "p1")
  /\ db["u1"].problemResults[1].problemId = "p1"
  /\ db["u1"].problemResults[1].submissionCount = 1
  /\ db["u1"].problemResults[1].status = "accepted"
  /\ db["u1"].problemResults[2].status = "not_attempted"

\* C34: every stored ProblemResult has 0 <= score <= maxScore.
C34_ScoreWithinMaxScore ==
  \A u \in Users : db[u].exists =>
    \A i \in 1..Len(db[u].problemResults) :
      /\ 0 <= db[u].problemResults[i].score
      /\ db[u].problemResults[i].score <= db[u].problemResults[i].maxScore

\* C35: the status of every stored ProblemResult agrees with its stored score:
\* accepted only if score = maxScore, partial only if 0 < score < maxScore,
\* attempted only if score = 0.
C35_StatusAgreesWithScore ==
  \A u \in Users : db[u].exists =>
    \A i \in 1..Len(db[u].problemResults) :
      LET entry == db[u].problemResults[i] IN
      /\ entry.status = "accepted" => entry.score = entry.maxScore
      /\ entry.status = "partial" => (0 < entry.score /\ entry.score < entry.maxScore)
      /\ entry.status = "attempted" => entry.score = 0

\* C36: a stored ProblemResult has status not_attempted if and only if its
\* submissionCount is 0.
C36_NotAttemptedIffNoSubmission ==
  \A u \in Users : db[u].exists =>
    \A i \in 1..Len(db[u].problemResults) :
      db[u].problemResults[i].status = "not_attempted"
        <=> db[u].problemResults[i].submissionCount = 0

\* after a submission for p1 that passed no test: p1 is attempted with one
\* submission, p2 is not_attempted with none
C36_Witness ==
  /\ db["u1"].exists
  /\ db["u1"].problemResults[1].status = "attempted"
  /\ db["u1"].problemResults[1].submissionCount = 1
  /\ db["u1"].problemResults[2].status = "not_attempted"
  /\ db["u1"].problemResults[2].submissionCount = 0

\* C37: a submitFinalResults request whose body names a user other than the
\* authenticated one is answered 403 and that step creates and changes no
\* ContestResult: a step of submitFinalResults either is such a rejection, or
\* is the step of no request that names another user.
C37_FinalResultsOnlyForOwnRecord ==
  [][ \A r \in Reqs :
        (rq[r].pc = "idle" /\ rq'[r].op = "submitFinalResults") =>
          \/ /\ rq'[r].pc = "responded"
             /\ rq'[r].res = 403
             /\ db' = db
             /\ finals' = finals
          \/ \A a \in Principals, u \in Users, c \in ContestIds :
               a # u => ~submitFinalResults(r, a, u, c)
    ]_vars

\* a request that named another user's record was answered 403; the record is
\* there and is not completed
C37_Witness ==
  /\ rq["r1"].pc = "responded"
  /\ rq["r1"].op = "submitFinalResults"
  /\ rq["r1"].res = 403
  /\ db["u1"].exists
  /\ ~db["u1"].isCompleted
  /\ finals = 0

====
